---- MODULE Spec2Model ----
(***************************************************************************)
(* The poker position trainer (PokerPositionTrainer) in its three          *)
(* variants:                                                               *)
(*   "feedback"  app/components/poker-position-trainer.tsx lines 1-273:    *)
(*               every answer starts the next round at once, a timer       *)
(*               clears the feedback mark;                                 *)
(*   "auto"      app/components/poker-position-trainer.tsx lines 275-572:  *)
(*               the result is shown and a timer advances to the next      *)
(*               round;                                                    *)
(*   "manual"    unnamed/part_000: the result is shown until the user      *)
(*               presses the next button.                                  *)
(* A state is the React state of the mounted component, the module-level   *)
(* position arrays, and the host's pending timeouts.  One action is one    *)
(* event handler or timeout callback together with the render and the      *)
(* effect run it causes.                                                   *)
(***************************************************************************)
EXTENDS Integers, Sequences, FiniteSets, TLC

\* ---- bounds of the model ------------------------------------------------
\* Number of sample points taken from Math.random()'s range [0, 1).
RandLevels == 2
\* Math.random() is modelled as r / RandDenom with r in 0 .. RandDenom - 1.
RandDenom == 100
\* Scored answers per behaviour.
MaxAnswers == 2

\* ---- values ---------------------------------------------------------------
\* JavaScript null, for the AnswerResult and string | null fields.
NULL == "null"
\* No timeout handle.
NoTimer == 0

VARIABLES
    variant,            \* which of the three components is mounted
    POSITIONS_6MAX,     \* module-level array
    POSITIONS_9MAX,     \* module-level array
    tableSize,          \* useState<TableSize>
    quiz,               \* useState<QuizState>
    stats,              \* useState({correct, total})
    shuffledPositions,  \* useState<Position[]> ("feedback", "auto")
    feedback,           \* useState<AnswerResult> ("feedback")
    result,             \* useState<AnswerResult> ("auto", "manual")
    selectedAnswer,     \* useState<string | null> ("auto", "manual")
    timers,             \* timeouts scheduled by setTimeout and not yet fired or cleared
    timer,              \* the handle the registered effect cleanup will clear
    nextTimerId,        \* the handle the next setTimeout returns
    answerSeq,          \* history: number of scored answers so far
    event               \* history: the handler or callback that ran last

vars == <<variant, POSITIONS_6MAX, POSITIONS_9MAX, tableSize, quiz, stats,
          shuffledPositions, feedback, result, selectedAnswer, timers, timer,
          nextTimerId, answerSeq, event>>

Pos(n) == [name |-> n, label |-> n]

Names(ps) == [i \in 1..Len(ps) |-> ps[i].name]

\* Samples of Math.random(), as numerators over RandDenom: 0, ..., the largest
\* value below 1.
RandomDraws == {(i * (RandDenom - 1)) \div (RandLevels - 1) : i \in 0..(RandLevels - 1)}

getPositions(size) == IF size = 6 THEN POSITIONS_6MAX ELSE POSITIONS_9MAX

\* Math.floor(Math.random() * max), r the sample of Math.random().
getRandomInt(max, r) == (r * max) \div RandDenom

\* The draw streams one shuffleArray call over n elements may consume: draws[i]
\* is the sample used in the iteration with loop index i.  The streams are bounded
\* to those that repeat one sample.
ShuffleStreams(n) == {[i \in 1..(n - 1) |-> r] : r \in RandomDraws}

\* A slip in the swap: only shuffled[i] is written, shuffled[j] keeps its value.
SwapOverwrite(s, i, j) == [s EXCEPT ![i + 1] = s[j + 1]]

\* [s[i], s[j]] = [s[j], s[i]] with 0-based i, j.
Swap(s, i, j) == [s EXCEPT ![i + 1] = s[j + 1], ![j + 1] = s[i + 1]]

RECURSIVE ShuffleLoop(_, _, _)
ShuffleLoop(s, i, draws) ==
    IF i > 0
    THEN ShuffleLoop(Swap(s, i, (draws[i] * (i + 1)) \div RandDenom), i - 1, draws)
    ELSE s

\* A common slip: the loop permutes the argument array itself.
shuffleArrayInPlace(arr, draws) ==
    LET s == ShuffleLoop(arr, Len(arr) - 1, draws) IN [shuffled |-> s, arr |-> s]

\* shuffleArray: .shuffled is the returned array, .arr the argument array after
\* the call (the loop works on the copy [...arr]).
shuffleArray(arr, draws) ==
    [shuffled |-> ShuffleLoop(arr, Len(arr) - 1, draws), arr |-> arr]


\* ---- quiz generation ------------------------------------------------------
\* A slip in the lookup: the table is indexed by the seat, not by the offset
\* from the button.
generateQuizBySeat(size, r1, r2) ==
    LET positions == getPositions(size)
        totalSeats == Len(positions)
        btnSeatIndex == getRandomInt(totalSeats, r1)
        questionOffset == getRandomInt(totalSeats, r2)
        questionSeatIndex == (btnSeatIndex + questionOffset) % totalSeats
    IN  [btnSeatIndex |-> btnSeatIndex,
         questionSeatIndex |-> questionSeatIndex,
         correctPosition |-> positions[questionSeatIndex + 1].name]

\* generateQuiz of the "feedback" variant; r1, r2 are the two Math.random() draws.
generateQuiz(size, r1, r2) ==
    LET positions == getPositions(size)
        totalSeats == Len(positions)
        btnSeatIndex == getRandomInt(totalSeats, r1)
        questionOffset == getRandomInt(totalSeats, r2)
        questionSeatIndex == (btnSeatIndex + questionOffset) % totalSeats
        relativePosition == (questionSeatIndex - btnSeatIndex + totalSeats) % totalSeats
    IN  [btnSeatIndex |-> btnSeatIndex,
         questionSeatIndex |-> questionSeatIndex,
         correctPosition |-> positions[relativePosition + 1].name]

\* A different rule: the question seat is fixed at the seat floor(totalSeats / 2),
\* whatever the draws.
generateQuizAutoSelf(size, r1, r2) ==
    LET positions == getPositions(size)
        totalSeats == Len(positions)
        btnSeatIndex == getRandomInt(totalSeats, r1)
        questionSeatIndex == totalSeats \div 2
        relativePosition == (questionSeatIndex - btnSeatIndex + totalSeats) % totalSeats
    IN  [btnSeatIndex |-> btnSeatIndex,
         questionSeatIndex |-> questionSeatIndex,
         correctPosition |-> positions[relativePosition + 1].name]

\* generateQuiz of the "auto" variant (every seat, BTN included, may be asked).
generateQuizAuto(size, r1, r2) ==
    LET positions == getPositions(size)
        totalSeats == Len(positions)
        btnSeatIndex == getRandomInt(totalSeats, r1)
        questionOffset == getRandomInt(totalSeats, r2)
        questionSeatIndex == (btnSeatIndex + questionOffset) % totalSeats
        relativePosition == (questionSeatIndex - btnSeatIndex + totalSeats) % totalSeats
    IN  [btnSeatIndex |-> btnSeatIndex,
         questionSeatIndex |-> questionSeatIndex,
         correctPosition |-> positions[relativePosition + 1].name]

\* An off-by-one slip: the offset is drawn from 1 .. totalSeats and can wrap around
\* to the button seat.
generateQuizManualOffByOne(size, r1, r2) ==
    LET positions == getPositions(size)
        totalSeats == Len(positions)
        btnSeatIndex == getRandomInt(totalSeats, r1)
        questionOffset == 1 + getRandomInt(totalSeats, r2)
        questionSeatIndex == (btnSeatIndex + questionOffset) % totalSeats
        relativePosition == (questionSeatIndex - btnSeatIndex + totalSeats) % totalSeats
    IN  [btnSeatIndex |-> btnSeatIndex,
         questionSeatIndex |-> questionSeatIndex,
         correctPosition |-> positions[relativePosition + 1].name]

\* generateQuiz of the "manual" variant (the BTN seat is not asked).
generateQuizManual(size, r1, r2) ==
    LET positions == getPositions(size)
        totalSeats == Len(positions)
        btnSeatIndex == getRandomInt(totalSeats, r1)
        questionOffset == 1 + getRandomInt(totalSeats - 1, r2)
        questionSeatIndex == (btnSeatIndex + questionOffset) % totalSeats
        relativePosition == (questionSeatIndex - btnSeatIndex + totalSeats) % totalSeats
    IN  [btnSeatIndex |-> btnSeatIndex,
         questionSeatIndex |-> questionSeatIndex,
         correctPosition |-> positions[relativePosition + 1].name]

\* positions.filter((p) => p.name !== "BTN") of the "manual" variant.
answerPositions == SelectSeq(getPositions(tableSize), LAMBDA p : p.name # "BTN")

\* ---- effects ----------------------------------------------------------------
\* The state of the timeouts after a render: .timers the pending timeouts,
\* .timer the handle held by the registered cleanup, .nextTimerId the next handle.
\* pending: the timeouts pending before the render; changed: a dependency of the
\* effect differs from the previous render; by: the scored answer being shown.

\* The effect returns no cleanup: a re-run leaves the previous timeout pending.
FeedbackEffectNoCleanup(pending, changed, fb, by) ==
    IF ~changed THEN [timers |-> pending, timer |-> timer, nextTimerId |-> nextTimerId]
    ELSE IF fb = NULL THEN [timers |-> pending, timer |-> NoTimer, nextTimerId |-> nextTimerId]
    ELSE [timers |-> pending \cup {[id |-> nextTimerId, by |-> by]},
          timer |-> nextTimerId, nextTimerId |-> nextTimerId + 1]

\* useEffect(..., [feedback]) of the "feedback" variant.
FeedbackEffect(pending, changed, fb, by) ==
    IF ~changed
    THEN [timers |-> pending, timer |-> timer, nextTimerId |-> nextTimerId]
    ELSE LET cleared == {t \in pending : t.id # timer}   \* clearTimeout(timer)
         IN  IF fb = NULL
             THEN [timers |-> cleared, timer |-> NoTimer, nextTimerId |-> nextTimerId]
             ELSE [timers |-> cleared \cup {[id |-> nextTimerId, by |-> by]},
                   timer |-> nextTimerId, nextTimerId |-> nextTimerId + 1]

\* The effect returns no cleanup: a re-run leaves the previous timeout pending.
AutoNextEffectNoCleanup(pending, changed, res, size, by) ==
    IF ~changed THEN [timers |-> pending, timer |-> timer, nextTimerId |-> nextTimerId]
    ELSE IF res = NULL THEN [timers |-> pending, timer |-> NoTimer, nextTimerId |-> nextTimerId]
    ELSE [timers |-> pending \cup {[id |-> nextTimerId, by |-> by, tableSize |-> size]},
          timer |-> nextTimerId, nextTimerId |-> nextTimerId + 1]

\* The effect runs on mount only (dependency list []): no timeout is ever scheduled.
AutoNextEffectMountOnly(pending, changed, res, size, by) ==
    [timers |-> pending, timer |-> timer, nextTimerId |-> nextTimerId]

\* useEffect(..., [result, goToNext]) of the "auto" variant.  The scheduled
\* callback is the goToNext of this render, which closes over its tableSize (size).
AutoNextEffect(pending, changed, res, size, by) ==
    IF ~changed
    THEN [timers |-> pending, timer |-> timer, nextTimerId |-> nextTimerId]
    ELSE LET cleared == {t \in pending : t.id # timer}   \* clearTimeout(timer)
         IN  IF res = NULL
             THEN [timers |-> cleared, timer |-> NoTimer, nextTimerId |-> nextTimerId]
             ELSE [timers |-> cleared \cup {[id |-> nextTimerId, by |-> by, tableSize |-> size]},
                   timer |-> nextTimerId, nextTimerId |-> nextTimerId + 1]

Ev(op, answer, size, id, by) ==
    [op |-> op, answer |-> answer, size |-> size, id |-> id, by |-> by]

\* ---- construction -------------------------------------------------------------
Init ==
    /\ variant \in {"feedback", "auto", "manual"}
    /\ POSITIONS_9MAX = <<Pos("BTN"), Pos("SB"), Pos("BB"), Pos("UTG"), Pos("UTG+1"),
                          Pos("UTG+2"), Pos("LJ"), Pos("HJ"), Pos("CO")>>
    /\ \E draws \in ShuffleStreams(6) :
          LET table == <<Pos("BTN"), Pos("SB"), Pos("BB"), Pos("UTG"), Pos("HJ"), Pos("CO")>>
              sh == shuffleArray(table, draws)
          IN  IF variant = "manual"
              THEN POSITIONS_6MAX = table /\ shuffledPositions = <<>>
              ELSE POSITIONS_6MAX = sh.arr /\ shuffledPositions = sh.shuffled
    /\ tableSize = 6
    /\ \E r1, r2 \in RandomDraws :
          quiz = CASE variant = "feedback" -> generateQuiz(6, r1, r2)
                   [] variant = "auto" -> generateQuizAuto(6, r1, r2)
                   [] OTHER -> generateQuizManual(6, r1, r2)
    /\ stats = [correct |-> 0, total |-> 0]
    /\ feedback = NULL
    /\ result = NULL
    /\ selectedAnswer = NULL
    /\ timers = {}
    /\ timer = NoTimer
    /\ nextTimerId = 1
    /\ answerSeq = 0
    /\ event = Ev("init", NULL, 0, NoTimer, 0)


\* ---- handlers -------------------------------------------------------------------
\* The handlers are modelled as callable in every state, with their own guards;
\* the submitted names are the names on the answer buttons.

\* The module-level array handed to shuffleArray, as the call leaves it.
SetTables(size, arr) ==
    /\ POSITIONS_6MAX' = IF size = 6 THEN arr ELSE POSITIONS_6MAX
    /\ POSITIONS_9MAX' = IF size = 6 THEN POSITIONS_9MAX ELSE arr

\* A slip in the counters: total counts the wrong answers only.
ScoreWrongOnly(isCorrect) ==
    [correct |-> stats.correct + (IF isCorrect THEN 1 ELSE 0),
     total |-> stats.total + (IF isCorrect THEN 0 ELSE 1)]

Score(isCorrect) ==
    [correct |-> stats.correct + (IF isCorrect THEN 1 ELSE 0), total |-> stats.total + 1]

\* -- "feedback" variant --
\* A slip: the quiz is generated for the table size of the previous render.
handleTableSizeChangeStale(size, r1, r2, draws) ==
    /\ variant = "feedback"
    /\ tableSize' = size
    /\ quiz' = generateQuiz(tableSize, r1, r2)
    /\ feedback' = NULL
    /\ stats' = [correct |-> 0, total |-> 0]
    /\ LET sh == shuffleArray(getPositions(size), draws)
       IN  shuffledPositions' = sh.shuffled /\ SetTables(size, sh.arr)
    /\ LET eff == FeedbackEffect(timers, feedback # NULL, NULL, answerSeq)
       IN  timers' = eff.timers /\ timer' = eff.timer /\ nextTimerId' = eff.nextTimerId
    /\ event' = Ev("handleTableSizeChange", NULL, size, NoTimer, 0)
    /\ UNCHANGED <<variant, result, selectedAnswer, answerSeq>>

handleTableSizeChange(size, r1, r2, draws) ==
    /\ variant = "feedback"
    /\ tableSize' = size
    /\ quiz' = generateQuiz(size, r1, r2)
    /\ feedback' = NULL
    /\ stats' = [correct |-> 0, total |-> 0]
    /\ LET sh == shuffleArray(getPositions(size), draws)
       IN  shuffledPositions' = sh.shuffled /\ SetTables(size, sh.arr)
    /\ LET eff == FeedbackEffect(timers, feedback # NULL, NULL, answerSeq)
       IN  timers' = eff.timers /\ timer' = eff.timer /\ nextTimerId' = eff.nextTimerId
    /\ event' = Ev("handleTableSizeChange", NULL, size, NoTimer, 0)
    /\ UNCHANGED <<variant, result, selectedAnswer, answerSeq>>

\* A slip: every answer is counted as correct.
handleAnswerAlwaysCorrect(answer, r1, r2) ==
    /\ variant = "feedback"
    /\ answerSeq < MaxAnswers
    /\ LET fb == "correct"
           eff == FeedbackEffect(timers, feedback # fb, fb, answerSeq + 1)
       IN  /\ stats' = Score(TRUE)
           /\ feedback' = fb
           /\ quiz' = generateQuiz(tableSize, r1, r2)
           /\ timers' = eff.timers /\ timer' = eff.timer /\ nextTimerId' = eff.nextTimerId
    /\ answerSeq' = answerSeq + 1
    /\ event' = Ev("handleAnswer", answer, 0, NoTimer, 0)
    /\ UNCHANGED <<variant, POSITIONS_6MAX, POSITIONS_9MAX, tableSize, shuffledPositions,
                   result, selectedAnswer>>

handleAnswer(answer, r1, r2) ==
    /\ variant = "feedback"
    /\ answerSeq < MaxAnswers
    /\ LET isCorrect == answer = quiz.correctPosition
           fb == IF isCorrect THEN "correct" ELSE "incorrect"
           eff == FeedbackEffect(timers, feedback # fb, fb, answerSeq + 1)
       IN  /\ stats' = Score(isCorrect)
           /\ feedback' = fb
           /\ quiz' = generateQuiz(tableSize, r1, r2)
           /\ timers' = eff.timers /\ timer' = eff.timer /\ nextTimerId' = eff.nextTimerId
    /\ answerSeq' = answerSeq + 1
    /\ event' = Ev("handleAnswer", answer, 0, NoTimer, 0)
    /\ UNCHANGED <<variant, POSITIONS_6MAX, POSITIONS_9MAX, tableSize, shuffledPositions,
                   result, selectedAnswer>>

\* The timeout t fires: () => setFeedback(null).
clearFeedback(t) ==
    /\ variant = "feedback"
    /\ t \in timers
    /\ feedback' = NULL
    /\ LET eff == FeedbackEffect(timers \ {t}, feedback # NULL, NULL, answerSeq)
       IN  timers' = eff.timers /\ timer' = eff.timer /\ nextTimerId' = eff.nextTimerId
    /\ event' = Ev("clearFeedback", NULL, 0, t.id, t.by)
    /\ UNCHANGED <<variant, POSITIONS_6MAX, POSITIONS_9MAX, tableSize, quiz, stats,
                   shuffledPositions, result, selectedAnswer, answerSeq>>


\* -- "auto" variant --
handleTableSizeChangeAuto(size, r1, r2, draws) ==
    /\ variant = "auto"
    /\ tableSize' = size
    /\ quiz' = generateQuizAuto(size, r1, r2)
    /\ result' = NULL
    /\ selectedAnswer' = NULL
    /\ stats' = [correct |-> 0, total |-> 0]
    /\ LET sh == shuffleArray(getPositions(size), draws)
       IN  shuffledPositions' = sh.shuffled /\ SetTables(size, sh.arr)
       \* goToNext is a new function exactly when tableSize changed
    /\ LET eff == AutoNextEffect(timers, result # NULL \/ size # tableSize, NULL, size,
                                 answerSeq)
       IN  timers' = eff.timers /\ timer' = eff.timer /\ nextTimerId' = eff.nextTimerId
    /\ event' = Ev("handleTableSizeChange", NULL, size, NoTimer, 0)
    /\ UNCHANGED <<variant, feedback, answerSeq>>

\* A slip: every round re-shuffles the answer buttons.
goToNextReshuffle(t, r1, r2) ==
    /\ variant = "auto"
    /\ t \in timers
    /\ quiz' = generateQuizAuto(t.tableSize, r1, r2)
    /\ result' = NULL
    /\ selectedAnswer' = NULL
    /\ \E draws \in ShuffleStreams(Len(getPositions(tableSize))) :
          shuffledPositions' = shuffleArray(getPositions(tableSize), draws).shuffled
    /\ LET eff == AutoNextEffect(timers \ {t}, result # NULL, NULL, tableSize, answerSeq)
       IN  timers' = eff.timers /\ timer' = eff.timer /\ nextTimerId' = eff.nextTimerId
    /\ event' = Ev("goToNext", NULL, 0, t.id, t.by)
    /\ UNCHANGED <<variant, POSITIONS_6MAX, POSITIONS_9MAX, tableSize, stats,
                   feedback, answerSeq>>

\* The timeout t fires: its callback is the goToNext of the render that scheduled
\* it, which generates the quiz for the tableSize of that render.
goToNext(t, r1, r2) ==
    /\ variant = "auto"
    /\ t \in timers
    /\ quiz' = generateQuizAuto(t.tableSize, r1, r2)
    /\ result' = NULL
    /\ selectedAnswer' = NULL
    /\ LET eff == AutoNextEffect(timers \ {t}, result # NULL, NULL, tableSize, answerSeq)
       IN  timers' = eff.timers /\ timer' = eff.timer /\ nextTimerId' = eff.nextTimerId
    /\ event' = Ev("goToNext", NULL, 0, t.id, t.by)
    /\ UNCHANGED <<variant, POSITIONS_6MAX, POSITIONS_9MAX, tableSize, stats,
                   shuffledPositions, feedback, answerSeq>>

\* The guard `if (result !== null) return;` is missing: every call is scored.
handleAnswerAutoNoGuard(answer) ==
    /\ variant = "auto"
    /\ answerSeq < MaxAnswers
    /\ LET isCorrect == answer = quiz.correctPosition
           res == IF isCorrect THEN "correct" ELSE "incorrect"
           eff == AutoNextEffect(timers, result # res, res, tableSize, answerSeq + 1)
       IN  /\ selectedAnswer' = answer
           /\ result' = res
           /\ stats' = Score(isCorrect)
           /\ timers' = eff.timers /\ timer' = eff.timer
           /\ nextTimerId' = eff.nextTimerId
    /\ answerSeq' = answerSeq + 1
    /\ event' = Ev("handleAnswer", answer, 0, NoTimer, 0)
    /\ UNCHANGED <<variant, POSITIONS_6MAX, POSITIONS_9MAX, tableSize, quiz,
                   shuffledPositions, feedback>>

handleAnswerAuto(answer) ==
    /\ variant = "auto"
    /\ \/ /\ result # NULL            \* if (result !== null) return;
          /\ UNCHANGED <<selectedAnswer, result, stats, timers, timer, nextTimerId,
                         answerSeq>>
       \/ /\ result = NULL
          /\ answerSeq < MaxAnswers
          /\ LET isCorrect == answer = quiz.correctPosition
                 res == IF isCorrect THEN "correct" ELSE "incorrect"
                 eff == AutoNextEffect(timers, TRUE, res, tableSize, answerSeq + 1)
             IN  /\ selectedAnswer' = answer
                 /\ result' = res
                 /\ stats' = Score(isCorrect)
                 /\ timers' = eff.timers /\ timer' = eff.timer
                 /\ nextTimerId' = eff.nextTimerId
          /\ answerSeq' = answerSeq + 1
    /\ event' = Ev("handleAnswer", answer, 0, NoTimer, 0)
    /\ UNCHANGED <<variant, POSITIONS_6MAX, POSITIONS_9MAX, tableSize, quiz,
                   shuffledPositions, feedback>>

\* -- "manual" variant --
handleTableSizeChangeManual(size, r1, r2) ==
    /\ variant = "manual"
    /\ tableSize' = size
    /\ quiz' = generateQuizManual(size, r1, r2)
    /\ result' = NULL
    /\ selectedAnswer' = NULL
    /\ stats' = [correct |-> 0, total |-> 0]
    /\ event' = Ev("handleTableSizeChange", NULL, size, NoTimer, 0)
    /\ UNCHANGED <<variant, POSITIONS_6MAX, POSITIONS_9MAX, shuffledPositions, feedback,
                   timers, timer, nextTimerId, answerSeq>>

handleAnswerManual(answer) ==
    /\ variant = "manual"
    /\ \/ /\ result # NULL            \* if (result !== null) return;
          /\ UNCHANGED <<selectedAnswer, result, stats, answerSeq>>
       \/ /\ result = NULL
          /\ answerSeq < MaxAnswers
          /\ LET isCorrect == answer = quiz.correctPosition
             IN  /\ selectedAnswer' = answer
                 /\ result' = IF isCorrect THEN "correct" ELSE "incorrect"
                 /\ stats' = Score(isCorrect)
          /\ answerSeq' = answerSeq + 1
    /\ event' = Ev("handleAnswer", answer, 0, NoTimer, 0)
    /\ UNCHANGED <<variant, POSITIONS_6MAX, POSITIONS_9MAX, tableSize, quiz,
                   shuffledPositions, feedback, timers, timer, nextTimerId>>

\* A slip: the next round also clears the score.
handleNextResetsStats(r1, r2) ==
    /\ variant = "manual"
    /\ quiz' = generateQuizManual(tableSize, r1, r2)
    /\ result' = NULL
    /\ selectedAnswer' = NULL
    /\ stats' = [correct |-> 0, total |-> 0]
    /\ event' = Ev("handleNext", NULL, 0, NoTimer, 0)
    /\ UNCHANGED <<variant, POSITIONS_6MAX, POSITIONS_9MAX, tableSize,
                   shuffledPositions, feedback, timers, timer, nextTimerId, answerSeq>>

handleNext(r1, r2) ==
    /\ variant = "manual"
    /\ quiz' = generateQuizManual(tableSize, r1, r2)
    /\ result' = NULL
    /\ selectedAnswer' = NULL
    /\ event' = Ev("handleNext", NULL, 0, NoTimer, 0)
    /\ UNCHANGED <<variant, POSITIONS_6MAX, POSITIONS_9MAX, tableSize, stats,
                   shuffledPositions, feedback, timers, timer, nextTimerId, answerSeq>>

\* ---- specification ---------------------------------------------------------------
TableSizes == {6, 9}

\* The row of answer buttons.
Buttons == IF variant = "manual" THEN answerPositions ELSE shuffledPositions

\* The names the user submits: those on the buttons at the sampled places of the
\* row (the first, ..., the last button).
ButtonNames == {Buttons[(r * Len(Buttons)) \div RandDenom + 1].name : r \in RandomDraws}

SizeChangeFeedback ==
    \E size \in TableSizes, r1, r2 \in RandomDraws :
        \E draws \in ShuffleStreams(Len(getPositions(size))) :
            handleTableSizeChange(size, r1, r2, draws)

AnswerFeedback ==
    \E answer \in ButtonNames, r1, r2 \in RandomDraws : handleAnswer(answer, r1, r2)

FeedbackTimeout == \E t \in timers : clearFeedback(t)

SizeChangeAuto ==
    \E size \in TableSizes, r1, r2 \in RandomDraws :
        \E draws \in ShuffleStreams(Len(getPositions(size))) :
            handleTableSizeChangeAuto(size, r1, r2, draws)

AnswerAuto == \E answer \in ButtonNames : handleAnswerAuto(answer)

AutoNextTimeout == \E t \in timers, r1, r2 \in RandomDraws : goToNext(t, r1, r2)

SizeChangeManual ==
    \E size \in TableSizes, r1, r2 \in RandomDraws : handleTableSizeChangeManual(size, r1, r2)

AnswerManual == \E answer \in ButtonNames : handleAnswerManual(answer)

NextManual == \E r1, r2 \in RandomDraws : handleNext(r1, r2)

Next ==
    \/ SizeChangeFeedback
    \/ AnswerFeedback
    \/ FeedbackTimeout
    \/ SizeChangeAuto
    \/ AnswerAuto
    \/ AutoNextTimeout
    \/ SizeChangeManual
    \/ AnswerManual
    \/ NextManual

Spec == Init /\ [][Next]_vars

\* The host runs a pending timeout callback once its delay has elapsed.
FairSpec == Spec /\ WF_vars(FeedbackTimeout) /\ WF_vars(AutoNextTimeout)


\* The accuracy readout: <<"-">> for "-", <<p, "%">> for `${p}%` with
\* p = Math.round((stats.correct / stats.total) * 100).
accuracy ==
    IF stats.total = 0
    THEN <<"-">>
    ELSE <<(200 * stats.correct + stats.total) \div (2 * stats.total), "%">>

\* ---- properties ------------------------------------------------------------------
Canonical6 == <<"BTN", "SB", "BB", "UTG", "HJ", "CO">>
Canonical9 == <<"BTN", "SB", "BB", "UTG", "UTG+1", "UTG+2", "LJ", "HJ", "CO">>

\* The offset of the question seat from the button seat, clockwise.
RelativeOffset(q, n) == (q.questionSeatIndex - q.btnSeatIndex + n) % n

\* C1: in every reachable state of every variant, quiz.correctPosition is the name
\* at index (questionSeatIndex - btnSeatIndex + totalSeats) mod totalSeats of the
\* position table of the current tableSize.
C1_OffsetInvariant ==
    LET positions == getPositions(tableSize)
        totalSeats == Len(positions)
    IN  quiz.correctPosition = positions[RelativeOffset(quiz, totalSeats) + 1].name

\* A 9-seat quiz generated by the auto-advance callback whose offset wraps around.
C1_Witness ==
    /\ event.op = "goToNext"
    /\ tableSize = 9
    /\ quiz.questionSeatIndex < quiz.btnSeatIndex
    /\ quiz.correctPosition = "CO"

\* C2: in every reachable state getPositions(6) is exactly BTN, SB, BB, UTG, HJ, CO
\* and getPositions(9) is exactly BTN, SB, BB, UTG, UTG+1, UTG+2, LJ, HJ, CO; no
\* operation, shuffleArray included, changes the canonical tables.
C2_CanonicalTables ==
    /\ Names(getPositions(6)) = Canonical6
    /\ Names(getPositions(9)) = Canonical9

\* shuffleArray has been applied to getPositions(9) and returned another order.
C2_Witness ==
    /\ event.op = "handleTableSizeChange"
    /\ tableSize = 9
    /\ Len(shuffledPositions) = 9
    /\ Names(shuffledPositions) # Canonical9
    /\ Names(getPositions(9)) = Canonical9

\* stats after scoring the name submitted in this step against the displayed quiz.
ScoredStats ==
    [correct |-> stats.correct + (IF event'.answer = quiz.correctPosition THEN 1 ELSE 0),
     total |-> stats.total + 1]

\* C3 as stated: every call of handleAnswer, in any reachable state, increases
\* stats.total by exactly 1 and stats.correct by 1 iff the submitted name equals
\* the correctPosition of the displayed quiz.
C3_EveryCallScores == [][event'.op = "handleAnswer" => stats' = ScoredStats]_vars

\* C3 (amended): every call of handleAnswer that is not ignored -- every call in
\* the feedback variant, and in the auto-advance and manual-next variants every
\* call made while result is null -- increases stats.total by exactly 1 and
\* stats.correct by 1 iff the submitted name equals the correctPosition of the
\* displayed quiz, and leaves stats.correct unchanged otherwise.
C3_ScoredCallScores ==
    [][(event'.op = "handleAnswer" /\ (variant = "feedback" \/ result = NULL))
          => stats' = ScoredStats]_vars

\* One correct and one wrong answer have been scored.
C3_Witness ==
    /\ event.op = "handleAnswer"
    /\ stats = [correct |-> 1, total |-> 2]

\* C4: in every variant and from any state, handleTableSizeChange(size) leaves
\* stats = {correct: 0, total: 0} and a quiz whose btnSeatIndex and
\* questionSeatIndex are in [0, totalSeats) of the selected size.
C4_SizeChangeResets ==
    event.op = "handleTableSizeChange" =>
        /\ tableSize = event.size
        /\ stats = [correct |-> 0, total |-> 0]
        /\ quiz.btnSeatIndex \in 0..(Len(getPositions(event.size)) - 1)
        /\ quiz.questionSeatIndex \in 0..(Len(getPositions(event.size)) - 1)

\* The 6-seat table is selected after answers have been scored.
C4_Witness ==
    /\ event.op = "handleTableSizeChange"
    /\ event.size = 6
    /\ answerSeq = MaxAnswers
    /\ stats.total = 0

\* C5 as stated: in the feedback variant, a timeout callback that clears the
\* feedback was scheduled by the most recent answer submission.
C5_ClearedByLatestTimer ==
    event.op = "clearFeedback" => event.by = answerSeq

\* C6: in the auto-advance variant the timeout callback goToNext runs only while
\* a result is showing, for the timeout scheduled by the most recent scored answer,
\* and leaves no timeout pending (at most one advance per scored answer); a table
\* size change leaves no timeout pending, so no callback replaces its quiz.
C6_NoStaleAdvance ==
    /\ []((variant = "auto" /\ event.op = "handleTableSizeChange") => timers = {})
    /\ [][(variant = "auto" /\ event'.op = "goToNext")
             => (result # NULL /\ event'.by = answerSeq /\ timers' = {})]_vars

\* The callback has advanced the round after the second scored answer.
C6_Witness ==
    /\ variant = "auto"
    /\ event.op = "goToNext"
    /\ event.by = 2
    /\ timers = {}

\* C7: in both timer variants at most one timeout is pending in every reachable
\* state.
C7_SingleTimer ==
    variant \in {"feedback", "auto"} => Cardinality(timers) <= 1

\* The feedback changed while a timeout was pending: the second timeout scheduled
\* is the only one pending.
C7_Witness ==
    /\ variant = "feedback"
    /\ nextTimerId = 3
    /\ \E t \in timers : t.id = 2

\* C8: shuffledPositions changes only on a table size change: handleAnswer, the
\* feedback-clear callback and goToNext leave it unchanged.
C8_ShuffleStable ==
    [][event'.op # "handleTableSizeChange" => shuffledPositions' = shuffledPositions]_vars

\* A round was answered and advanced under a shuffled 9-seat button layout.
C8_Witness ==
    /\ event.op = "goToNext"
    /\ Len(shuffledPositions) = 9
    /\ Names(shuffledPositions) # Canonical9
    /\ stats.total = 2

\* C9: in both timer variants, under fairness of the timeout callback, a non-null
\* feedback (feedback variant) or result (auto-advance variant) eventually becomes
\* null again.
C9_IndicatorCleared ==
    /\ (variant = "feedback" /\ feedback # NULL) ~> (feedback = NULL)
    /\ (variant = "auto" /\ result # NULL) ~> (result = NULL)

\* The timeout callback has cleared the feedback of a scored answer.
C9_Witness ==
    /\ event.op = "clearFeedback"
    /\ feedback = NULL
    /\ stats.total >= 1

\* C10: stats changes only on an answer submission or a table size change: the
\* feedback-clear callback, goToNext and handleNext leave stats.correct,
\* stats.total and tableSize unchanged.
C10_StatsFrame ==
    [][event'.op \notin {"handleAnswer", "handleTableSizeChange"}
          => (stats' = stats /\ tableSize' = tableSize)]_vars

\* handleNext has started a round with a score on the board.
C10_Witness ==
    /\ event.op = "handleNext"
    /\ stats.total >= 1
    /\ result = NULL


C12_ButtonNeverAsked ==
    variant = "manual" =>
        /\ quiz.questionSeatIndex # quiz.btnSeatIndex
        /\ quiz.correctPosition # "BTN"
        /\ \E i \in 1..Len(answerPositions) : answerPositions[i].name = quiz.correctPosition

\* handleNext generated a 9-seat quiz with the largest offset: the seat before the
\* button.
C12_Witness ==
    /\ variant = "manual"
    /\ event.op = "handleNext"
    /\ tableSize = 9
    /\ RelativeOffset(quiz, 9) = 8
    /\ quiz.correctPosition = "CO"


\* What one step of the auto-advance or manual-next variant does to a round.
OneAnswerPerRound ==
    variant \in {"auto", "manual"} =>
        /\ (event'.op = "handleAnswer" /\ result # NULL)
              => UNCHANGED <<stats, result, selectedAnswer, quiz>>
        /\ (event'.op = "handleAnswer" /\ result = NULL)
              => (result' # NULL /\ stats'.total = stats.total + 1)
        /\ (result # NULL /\ result' = NULL)
              => (event'.op \in {"goToNext", "handleNext", "handleTableSizeChange"})
        /\ (stats'.total > stats.total) => (result = NULL)

\* C13: in the auto-advance and manual-next variants a call of handleAnswer while
\* result is non-null leaves stats, result, selectedAnswer and quiz unchanged; a
\* scored answer sets result, and result returns to null only when a new round is
\* generated (goToNext, handleNext, handleTableSizeChange): at most one answer is
\* scored per round.
C13_AnswerIgnoredWhileResult == [][OneAnswerPerRound]_vars

\* A second name was submitted while the result of the scored one was showing.
C13_Witness ==
    /\ variant \in {"auto", "manual"}
    /\ event.op = "handleAnswer"
    /\ result # NULL
    /\ event.answer # selectedAnswer
    /\ stats.total = 1

\* The set of names of a sequence of positions.
NameSet(ps) == {ps[i].name : i \in 1..Len(ps)}

\* C14: in every reachable state the answer buttons carry names of the position
\* table of the current tableSize, without duplicates, quiz.correctPosition among
\* them: shuffledPositions is a permutation of getPositions(tableSize), and in the
\* manual-next variant the buttons are getPositions(tableSize) without BTN.
C14_ChoicesMatchTable ==
    LET positions == getPositions(tableSize)
    IN  /\ quiz.correctPosition \in NameSet(Buttons)
        /\ Cardinality(NameSet(Buttons)) = Len(Buttons)
        /\ variant # "manual" =>
              /\ Len(shuffledPositions) = Len(positions)
              /\ NameSet(shuffledPositions) = NameSet(positions)
        /\ variant = "manual" =>
              /\ Len(answerPositions) = Len(positions) - 1
              /\ NameSet(answerPositions) = NameSet(positions) \ {"BTN"}

\* Right after the change to the 9-seat table the shuffled buttons are those of the
\* 9-seat table, in another order.
C14_Witness ==
    /\ variant = "feedback"
    /\ event.op = "handleTableSizeChange"
    /\ tableSize = 9
    /\ Len(shuffledPositions) = 9
    /\ shuffledPositions[1].name # "BTN"
    /\ quiz.correctPosition \in NameSet(shuffledPositions)

\* C15: in every reachable state 0 <= stats.correct <= stats.total; the accuracy
\* readout is "-" exactly when total = 0 and otherwise a percentage in 0 .. 100.
C15_StatsOrdered ==
    /\ 0 <= stats.correct
    /\ stats.correct <= stats.total
    /\ (stats.total = 0) <=> (accuracy = <<"-">>)
    /\ stats.total # 0 => (Len(accuracy) = 2 /\ accuracy[1] \in 0..100)

\* One of two answers was correct: the readout shows 50%.
C15_Witness ==
    /\ stats.total = 2
    /\ stats.correct = 1
    /\ Len(accuracy) = 2
    /\ accuracy[1] = 50

====
